---- MODULE Spec2Model ----
(***************************************************************************)
(* A model of the SipHash-1-3 splittable generator SipRng, in its two      *)
(* presentations: the move-based one of src/src/lib.rs (SipRng,            *)
(* SipRngSplit, splitn(self), branch(&self, i)) and the in-place one of    *)
(* src/src/siprng.rs (SipRng, SipPrf, split(&mut self), call(&self, i)).   *)
(*                                                                         *)
(* A u64 is held as four 16-bit limbs, least significant first, so that    *)
(* every wrapping addition, rotation and XOR is computed at its full width *)
(* of 64 bits with numbers TLC can hold.                                   *)
(***************************************************************************)
EXTENDS Integers, Sequences, FiniteSets, TLC

\* ------------------------------------------------------------------------
\* 64-bit words
\* ------------------------------------------------------------------------

\* Bits of one limb and number of limbs of a u64 (4 * 16 = 64).
LimbBits == 16
NLimbs == 4
LimbMod == 2 ^ LimbBits

Pow2(n) == 2 ^ n

\* A u64 written as in the source, most significant 16 bits first.
Hex64(a, b, c, d) == <<d, c, b, a>>

\* The u64 of a small natural number (below 2^16).
U64(n) == <<n, 0, 0, 0>>

Zero64 == U64(0)

\* F applied to x, where x is computed first and once, however often F uses
\* it: a value held in a local variable
Bind(x, F(_)) == CHOOSE y \in {F(v) : v \in {x}} : TRUE

RECURSIVE XorBits(_, _, _)
XorBits(a, b, n) ==
    IF n = 0 THEN 0
    ELSE IF a = 0 THEN b
    ELSE IF b = 0 THEN a
    ELSE ((a + b) % 2) + 2 * XorBits(a \div 2, b \div 2, n - 1)

\* a ^ b for a, b < 16 and for a, b < 256, tabulated once (entry [a+1][b+1])
XorNibble == [a \in 1..16 |-> [b \in 1..16 |-> XorBits(a - 1, b - 1, 4)] \o <<>>] \o <<>>

XorByte ==
    [a \in 1..256 |->
        [b \in 1..256 |->
            XorNibble[((a - 1) % 16) + 1][((b - 1) % 16) + 1]
            + 16 * XorNibble[((a - 1) \div 16) + 1][((b - 1) \div 16) + 1]] \o <<>>] \o <<>>

\* a ^ b on one limb
XorLimb(a, b) ==
    XorByte[(a % 256) + 1][(b % 256) + 1] + 256 * XorByte[(a \div 256) + 1][(b \div 256) + 1]

\* x ^ y on u64
Xor(x, y) == <<XorLimb(x[1], y[1]), XorLimb(x[2], y[2]), XorLimb(x[3], y[3]), XorLimb(x[4], y[4])>>

\* x.wrapping_add(y) on u64: the carry out of the top limb is dropped
wrapping_add(x, y) ==
    LET s1 == x[1] + y[1]
        s2 == x[2] + y[2] + (s1 \div LimbMod)
        s3 == x[3] + y[3] + (s2 \div LimbMod)
        s4 == x[4] + y[4] + (s3 \div LimbMod)
    IN  <<s1 % LimbMod, s2 % LimbMod, s3 % LimbMod, s4 % LimbMod>>

\* x.rotate_left(r) on u64, 0 <= r < 64
rotate_left(x, r) ==
    LET q == r \div LimbBits
        s == r % LimbBits
        lo(j) == x[((j - 1 - q) % NLimbs) + 1]
        hi(j) == x[((j - 2 - q) % NLimbs) + 1]
        limb(j) == ((lo(j) % Pow2(LimbBits - s)) * Pow2(s)) + (hi(j) \div Pow2(LimbBits - s))
    IN  <<limb(1), limb(2), limb(3), limb(4)>>

\* ------------------------------------------------------------------------
\* SipRound and the generator core
\* ------------------------------------------------------------------------

\* macro sipround!(v0, v1, v2, v3): the lanes as a 4-tuple <<v0, v1, v2, v3>>.
\* The last statement assigns v2 from v0, as the source does.
sipround(v) ==
    LET a0 == wrapping_add(v[1], v[2])
        a2 == wrapping_add(v[3], v[4])
        a1 == rotate_left(v[2], 13)
        a3 == rotate_left(v[4], 16)
        b1 == Xor(a1, a0)
        b3 == Xor(a3, a2)
        b0 == rotate_left(a0, 32)
        c2 == wrapping_add(a2, b1)
        c0 == wrapping_add(b0, b3)
        c1 == rotate_left(b1, 17)
        c3 == rotate_left(b3, 21)
        d1 == Xor(c1, c2)
        d3 == Xor(c3, c0)
        d2 == rotate_left(c0, 32)
    IN  <<c0, d1, d2, d3>>

C0 == Hex64(29551, 28005, 28787, 25973)  \* 0x736f6d6570736575
C1 == Hex64(25711, 29281, 28260, 28525)  \* 0x646f72616e646f6d
C2 == Hex64(27769, 26469, 28261, 29281)  \* 0x6c7967656e657261
C3 == Hex64(29797, 25698, 31092, 25971)  \* 0x7465646279746573

\* ------------------------------------------------------------------------
\* The build target.  usize is 32 or 64 bits wide and mem::transmute gives
\* the bytes of a u64 in the target's own byte order; both are fixed when
\* the program is built and never change while it runs.
\* ------------------------------------------------------------------------
VARIABLES
    variant,      \* "lib": src/src/lib.rs; "siprng": src/src/siprng.rs
    usize_bits,   \* width of usize on the target: 32 or 64
    big_endian,   \* TRUE on a big-endian target
    gens,         \* the live generators: slot -> generator
    splits,       \* the live split objects (SipRngSplit / SipPrf): slot -> split
    fns,          \* the live random functions (Box<Fn(A) -> B>): slot -> closure
    obs           \* the values derived so far from splits, as the callers saw them

vars == <<variant, usize_bits, big_endian, gens, splits, fns, obs>>

\* self.len.wrapping_add(1) on usize: wraps at the target's word width
\* usize::saturating_add in the place of usize::wrapping_add: len would stay
\* at usize::MAX instead of wrapping to 0
usize_saturating_add(x, y) ==
    LET s == wrapping_add(x, y)
        m == IF usize_bits = 32 THEN Hex64(0, 0, 65535, 65535)
                                ELSE Hex64(65535, 65535, 65535, 65535)
    IN  IF x = m /\ y # Zero64 THEN m
        ELSE IF usize_bits = 32 THEN <<s[1], s[2], 0, 0>> ELSE s

\* self.len.wrapping_add(1) on usize: wraps at the target's word width
usize_wrapping_add(x, y) ==
    LET s == wrapping_add(x, y)
    IN  IF usize_bits = 32 THEN <<s[1], s[2], 0, 0>> ELSE s

\* i as usize, for a u64 i: truncates to the target's word width
as_usize(x) == IF usize_bits = 32 THEN <<x[1], x[2], 0, 0>> ELSE x

\* SipRng::new(k0, k1)
new(k0, k1) ==
    [v0  |-> Xor(k0, C0),
     v1  |-> Xor(k1, C1),
     v2  |-> Xor(k0, C2),
     v3  |-> Xor(k1, C3),
     ctr |-> Zero64,
     len |-> U64(1)]

\* A clone that starts its own counter instead of copying ctr
clone_fresh_ctr(g) ==
    [v0  |-> g.v0,
     v1  |-> g.v1,
     v2  |-> g.v2,
     v3  |-> g.v3,
     ctr |-> Zero64,
     len |-> g.len]

\* SipRng::clone (siprng.rs) and #[derive(Clone)] (lib.rs): a field-wise copy
clone(g) ==
    [v0  |-> g.v0,
     v1  |-> g.v1,
     v2  |-> g.v2,
     v3  |-> g.v3,
     ctr |-> g.ctr,
     len |-> g.len]

\* An advance that XORs the counter into v3 before the round but not into v0
\* after it
advance_without_v0_xor(g) ==
    Bind(sipround(<<g.v0, g.v1, g.v2, Xor(g.v3, g.ctr)>>),
         LAMBDA r : [v0  |-> r[1],
                     v1  |-> r[2],
                     v2  |-> r[3],
                     v3  |-> r[4],
                     ctr |-> wrapping_add(g.ctr, U64(1)),
                     len |-> g.len])

\* SipRng::advance(&mut self): the generator afterwards
advance(g) ==
    Bind(sipround(<<g.v0, g.v1, g.v2, Xor(g.v3, g.ctr)>>),
         LAMBDA r : [v0  |-> Xor(r[1], g.ctr),
                     v1  |-> r[2],
                     v2  |-> r[3],
                     v3  |-> r[4],
                     ctr |-> wrapping_add(g.ctr, U64(1)),
                     len |-> g.len])

\* SipRng::descend(&mut self, i): the generator afterwards
descend(g, i) ==
    Bind(sipround(<<g.v0, g.v1, g.v2, Xor(g.v3, i)>>),
         LAMBDA r : [v0  |-> Xor(r[1], i),
                     v1  |-> r[2],
                     v2  |-> r[3],
                     v3  |-> r[4],
                     ctr |-> Zero64,
                     len |-> usize_wrapping_add(g.len, U64(1))])

\* (self.len as u64).wrapping_shl(56): the low byte of len moved to byte 7
len_tag(len) == <<0, 0, 0, (len[1] % 256) * 256>>

\* The word next_u64 returns for the lanes and len left by advance; it works
\* on local copies of the lanes.
finalize(g) ==
    Bind(sipround(<<g.v0, g.v1, g.v2, Xor(g.v3, len_tag(g.len))>>),
         LAMBDA r1 :
             Bind(sipround(sipround(sipround(
                      <<Xor(r1[1], len_tag(g.len)), r1[2], Xor(r1[3], U64(255)), r1[4]>>))),
                  LAMBDA r3 : Xor(Xor(r3[1], r3[2]), Xor(r3[3], r3[4]))))

\* A next_u64 that finalizes the stored lanes instead of local copies: the
\* 0xff XOR of the finalization stays in v2
next_u64_writeback(g) ==
    Bind(advance(g),
         LAMBDA a : [self |-> [a EXCEPT !.v2 = Xor(@, U64(255))], ret |-> finalize(a)])

\* Rng::next_u64(&mut self): self afterwards and the word returned
next_u64(g) ==
    Bind(advance(g), LAMBDA a : [self |-> a, ret |-> finalize(a)])

\* Rng::next_u32(&mut self): self.next_u64() as u32, a u32 as two limbs
next_u32(g) ==
    Bind(next_u64(g), LAMBDA r : [self |-> r.self, ret |-> <<r.ret[1], r.ret[2]>>])

\* mem::transmute::<u64, [u8; 8]>(w): the bytes of w as they lie in memory
transmute(w) ==
    LET le == <<w[1] % 256, w[1] \div 256, w[2] % 256, w[2] \div 256,
                w[3] % 256, w[3] \div 256, w[4] % 256, w[4] \div 256>>
    IN  IF big_endian
        THEN <<le[8], le[7], le[6], le[5], le[4], le[3], le[2], le[1]>>
        ELSE le

\* Rng::fill_bytes(&mut self, dest) for a dest of n bytes: one next_u64 per
\* chunk of dest.chunks_mut(8), of which chunk.len() bytes are copied
RECURSIVE fill_bytes(_, _)
fill_bytes(g, n) ==
    IF n = 0 THEN [self |-> g, dest |-> <<>>]
    ELSE LET k == IF n < 8 THEN n ELSE 8
         IN  Bind(next_u64(g),
                  LAMBDA r :
                      Bind(fill_bytes(r.self, n - k),
                           LAMBDA rest :
                               [self |-> rest.self,
                                dest |-> SubSeq(transmute(r.ret), 1, k) \o rest.dest]))

\* A reseed that overwrites the lanes and ctr but leaves len as it was
reseed_keeps_len(g, seed) ==
    [[[[[g EXCEPT !.v0 = Xor(seed[1], C0)]
           EXCEPT !.v1 = Xor(seed[2], C1)]
           EXCEPT !.v2 = Xor(seed[1], C2)]
           EXCEPT !.v3 = Xor(seed[2], C3)]
           EXCEPT !.ctr = Zero64]

\* SeedableRng::reseed(&mut self, seed): self afterwards
reseed(g, seed) ==
    [[[[[[g EXCEPT !.v0 = Xor(seed[1], C0)]
            EXCEPT !.v1 = Xor(seed[2], C1)]
            EXCEPT !.v2 = Xor(seed[1], C2)]
            EXCEPT !.v3 = Xor(seed[2], C3)]
            EXCEPT !.len = U64(1)]
            EXCEPT !.ctr = Zero64]

\* SeedableRng::from_seed(seed)
from_seed(seed) == new(seed[1], seed[2])

\* ------------------------------------------------------------------------
\* Splitting, move-based (src/src/lib.rs)
\* ------------------------------------------------------------------------

\* A splitn that captures the generator after one more advance
splitn_advanced(g) == advance(g)

\* SplittableRng::splitn(self) for SipRng: SipRngSplit(self)
splitn(g) == g

\* A branch that descends the captured generator itself and hands out a copy
branch_in_place(s, i) ==
    LET r == descend(s, i)
    IN  [self |-> r, ret |-> clone(r)]

\* SplitRng::branch(&self, i) for SipRngSplit: the split afterwards (it is
\* borrowed immutably) and the generator returned
branch(s, i) ==
    LET r == clone(s)
    IN  [self |-> s, ret |-> descend(r, i)]

\* SplittableRng::split(self), the default method: the pair returned
split(g) ==
    LET sp == splitn(g)
        b0 == branch(sp, U64(0))
        b1 == branch(b0.self, U64(1))
    IN  <<b0.ret, b1.ret>>

\* ------------------------------------------------------------------------
\* Splitting, in place (src/src/siprng.rs)
\* ------------------------------------------------------------------------

\* SplitPrf::call(&self, i) for SipPrf
call(s, i) ==
    LET r == clone(s)
    IN  [self |-> s, ret |-> descend(r, i)]

\* A split that clones the child only after the parent has descended
siprng_split_late_clone(g) ==
    LET parent == descend(g, U64(0))
    IN  [self |-> parent, ret |-> descend(clone(parent), U64(1))]

\* A split that hands out the child and leaves self where it was
siprng_split_parent_stays(g) == [self |-> g, ret |-> descend(clone(g), U64(1))]

\* SplitRng::split(&mut self) for SipRng: self afterwards and the child
siprng_split(g) ==
    LET child == clone(g)
    IN  [self |-> descend(g, U64(0)), ret |-> descend(child, U64(1))]

\* A splitn that wraps a copy of self as it was and descends self with 0
siprng_splitn_of_self(g) == [self |-> descend(g, U64(0)), ret |-> clone(g)]

\* SplitRng::splitn(&mut self) for SipRng: self afterwards and SipPrf(child)
siprng_splitn(g) ==
    LET r == siprng_split(g)
    IN  [self |-> r.self, ret |-> r.ret]

\* ------------------------------------------------------------------------
\* Random functions (src/src/lib.rs, impl SplitRand for Box<Fn(A) -> B>)
\* ------------------------------------------------------------------------

\* fn hash<T: Hash>(t: &T) -> u64 for T = u64 and t = 0, 1, 2, 3: SipHash-2-4
\* under SipHasher::new()'s zero keys of the eight bytes of t as they lie in
\* memory (tabulated from a reference implementation of SipHash-2-4)
hash(t) ==
    IF big_endian
    THEN CASE t = 0 -> Hex64(59465, 59579, 28670, 9575)
           [] t = 1 -> Hex64(2679, 56388, 16878, 18362)
           [] t = 2 -> Hex64(54637, 10361, 35583, 29875)
           [] t = 3 -> Hex64(34497, 1331, 19461, 62744)
    ELSE CASE t = 0 -> Hex64(59465, 59579, 28670, 9575)
           [] t = 1 -> Hex64(32772, 50598, 37904, 24414)
           [] t = 2 -> Hex64(48623, 60671, 52450, 18945)
           [] t = 3 -> Hex64(50616, 22533, 11879, 40058)

\* SplitRand::rand(split) for Box<Fn(A) -> B>: the split the closure owns
rand(s) == clone(s)

\* A closure that draws from the generator it holds instead of from a branch
\* of it
apply_sequential(s, arg) ==
    Bind(next_u64(s), LAMBDA r : [self |-> r.self, ret |-> r.ret])

\* The closure's body for B = u64, whose Rand::rand(rng) is rng.next_u64():
\* Rand::rand(&mut split.branch(hash(&arg) as usize)); the closure's split
\* afterwards and the value returned
apply(s, arg) ==
    LET b == branch(s, as_usize(hash(arg)))
    IN  [self |-> b.self, ret |-> next_u64(b.ret).ret]

\* ------------------------------------------------------------------------
\* Derivation of a pair from a generator (SplitRand::split_gen of the crate
\* siprng.rs belongs to; that file is not among the sources, see spec.md
\* section 4.7)
\* ------------------------------------------------------------------------

\* Rand::rand for [u64; n]: n successive rng.next_u64()
RECURSIVE rand_array(_, _)
rand_array(g, n) ==
    IF n = 0 THEN [self |-> g, ret |-> <<>>]
    ELSE Bind(next_u64(g),
              LAMBDA r :
                  Bind(rand_array(r.self, n - 1),
                       LAMBDA rest : [self |-> rest.self, ret |-> <<r.ret>> \o rest.ret]))

\* A derivation that draws both positions from rng itself, one after the other
split_gen_sequential(g, n0, n1) ==
    Bind(rand_array(g, n0),
         LAMBDA a0 :
             Bind(rand_array(a0.self, n1),
                  LAMBDA a1 : [self |-> a1.self, ret |-> <<a0.ret, a1.ret>>]))

\* rng.split_gen::<([u64; n0], [u64; n1])>(): position k is drawn from child
\* k of one split of rng; rng afterwards and the pair
split_gen(g, n0, n1) ==
    Bind(siprng_splitn(g),
         LAMBDA s :
             Bind(call(s.ret, U64(0)),
                  LAMBDA c0 :
                      Bind(call(c0.self, U64(1)),
                           LAMBDA c1 :
                               [self |-> s.self,
                                ret  |-> <<rand_array(c0.ret, n0).ret,
                                           rand_array(c1.ret, n1).ret>>])))

\* ------------------------------------------------------------------------
\* Bounds of the model
\* ------------------------------------------------------------------------

\* Generators alive at once, split objects alive at once
NSlots == 3
NSplits == 1
\* Seeds to choose from
NSeeds == 2
\* Words drawn from one generator between two descends (bounds ctr), in the
\* specification of the split tree and in the others
TreeDraws == 1
MaxDraws == 2
\* Descends along one path, in the specification of the split tree and in
\* the others
TreeDepth == 2
MaxDepth == 1
\* Branch indices are 0..MaxIndex
MaxIndex == 1
\* Arguments of a random function are 0..MaxArg
MaxArg == 1
\* Array lengths of the pair derivation (16 and 32 in the test) and the
\* number of derivations from one parent (100 in the test)
S1 == 1
S2 == 2
MaxIter == 2
\* Generators alive at once where clones are taken
NTwins == 2

Slots == 1..NSlots
SplitSlots == 1..NSplits
Indices == 0..MaxIndex
Args == 0..MaxArg

\* Lengths of the buffers handed to fill_bytes: whole chunks and partial ones
FillSizes == {0, 1, 7, 8, 9, 8 * MaxDraws}

\* The seeds of the tests, (0, 0) and (1234567890, 987654321), then others
SeedOf(k) ==
    CASE k = 1 -> <<U64(0), U64(0)>>
      [] k = 2 -> <<Hex64(0, 0, 18838, 722), Hex64(0, 0, 15070, 26801)>>
      [] OTHER -> <<U64(k), U64(2 * k)>>

\* ------------------------------------------------------------------------
\* The program state: a pool of generators and split objects.  Beside its
\* six fields g, each carries what was done to it, for the properties:
\*   hist      the seed, then every value XORed in by advance (<<"a", ctr>>)
\*             and by descend (<<"d", i>>) since seeding
\*   out       the words next_u64 has returned since its last descend or
\*             seeding
\*   twin      the slot of the generator it was cloned from or to, 0 when none
\*             or when either has since been split, reseeded or moved
\*   via       the operation that was last applied to it or that returned it
\*   pre       the six fields that operation started from
\*   ret       what that operation returned, when it is not the generator
\*   descs     the number of descends since seeding, as a u64
\*   reseeded  whether it has been reseeded
\* ------------------------------------------------------------------------

FreeSlot == CHOOSE s \in Slots \ DOMAIN gens : \A t \in Slots \ DOMAIN gens : s <= t
FreeSplit == CHOOSE s \in SplitSlots \ DOMAIN splits : \A t \in SplitSlots \ DOMAIN splits : s <= t

\* The pool with slot s and its twin (if any) no longer linked
Unlinked(pool, s) ==
    [t \in DOMAIN pool |->
        IF pool[t].twin = s \/ t = s THEN [pool[t] EXCEPT !.twin = 0] ELSE pool[t]]

Without(pool, s) == [t \in DOMAIN pool \ {s} |-> pool[t]]

\* Descends in history h that the model has performed one by one
Descents(h) == Cardinality({j \in 1..Len(h) : h[j][1] = "d"})

Ctr(e) == e.g.ctr[1]

Fresh(k) ==
    [g |-> from_seed(SeedOf(k)), hist |-> << <<"s", k>> >>, out |-> <<>>, twin |-> 0,
     via |-> "from_seed", pre |-> <<>>, ret |-> <<>>, descs |-> Zero64, reseeded |-> FALSE]

\* The generator g that op made, along index i, of the generator pre that
\* entry e recorded (e is a generator or a split)
Child(g, e, pre, i, op) ==
    [g |-> g, hist |-> Append(e.hist, <<"d", i>>), out |-> <<>>, twin |-> 0,
     via |-> op, pre |-> pre, ret |-> <<>>, descs |-> wrapping_add(e.descs, U64(1)),
     reseeded |-> e.reseeded]

\* Entry e after op advanced it n times to g and returned ret
Drawn(e, g, n, op, ret) ==
    [e EXCEPT !.g = g,
              !.hist = @ \o [j \in 1..n |-> <<"a", Ctr(e) + j - 1>>],
              !.out = IF op = "next_u64" THEN Append(@, ret) ELSE @,
              !.via = op,
              !.pre = e.g,
              !.ret = ret]

\* The generator of a 32-bit target that was seeded with (0, 0) and then split
\* 4294967294 times, each time keeping the branch of index 0 (siprng.rs: the
\* parent of split(); lib.rs: the first generator of split()): its len is
\* usize::MAX, and descs counts these descends.  The lanes are those a reference run of new and descend gives.
Deep32 ==
    [g |-> [v0  |-> Hex64(54746, 60960, 37736, 46450),
            v1  |-> Hex64(53096, 44739, 15860, 62671),
            v2  |-> Hex64(37736, 46450, 54746, 60960),
            v3  |-> Hex64(58935, 33328, 40173, 57153),
            ctr |-> Zero64,
            len |-> Hex64(0, 0, 65535, 65535)],
     hist |-> << <<"s", 1>>, <<"d*", 0>> >>, out |-> <<>>, twin |-> 0,
     via |-> "deep", pre |-> <<>>, ret |-> <<>>,
     descs |-> Hex64(0, 0, 65535, 65534), reseeded |-> FALSE]

\* ------------------------------------------------------------------------
\* Operations
\* ------------------------------------------------------------------------

\* r.next_u64(), at most max words between two descends
NextU64(s, max) ==
    /\ s \in DOMAIN gens
    /\ Ctr(gens[s]) < max
    /\ \E r \in {next_u64(gens[s].g)} :
           gens' = [gens EXCEPT ![s] = Drawn(gens[s], r.self, 1, "next_u64", r.ret)]
    /\ UNCHANGED <<variant, usize_bits, big_endian, splits, fns, obs>>

\* r.next_u32()
NextU32(s) ==
    /\ s \in DOMAIN gens
    /\ Ctr(gens[s]) < MaxDraws
    /\ \E r \in {next_u32(gens[s].g)} :
           gens' = [gens EXCEPT ![s] = Drawn(gens[s], r.self, 1, "next_u32", r.ret)]
    /\ UNCHANGED <<variant, usize_bits, big_endian, splits, fns, obs>>

\* r.fill_bytes(&mut dest) for a dest of n bytes
FillBytes(s, n) ==
    /\ s \in DOMAIN gens
    /\ Ctr(gens[s]) + ((n + 7) \div 8) <= MaxDraws
    /\ \E r \in {fill_bytes(gens[s].g, n)} :
           gens' = [gens EXCEPT
                       ![s] = Drawn(gens[s], r.self, (n + 7) \div 8, "fill_bytes", r.dest)]
    /\ UNCHANGED <<variant, usize_bits, big_endian, splits, fns, obs>>

\* r.reseed(seed)
Reseed(s, k) ==
    /\ s \in DOMAIN gens
    /\ gens' = [Unlinked(gens, s) EXCEPT
                   ![s] = [g |-> reseed(gens[s].g, SeedOf(k)), hist |-> << <<"s", k>> >>,
                           out |-> <<>>, twin |-> 0, via |-> "reseed", pre |-> gens[s].g,
                           ret |-> <<>>, descs |-> Zero64, reseeded |-> TRUE]]
    /\ UNCHANGED <<variant, usize_bits, big_endian, splits, fns, obs>>

\* let c = r.clone(), while fewer than NTwins generators are alive
Clone(s) ==
    /\ s \in DOMAIN gens
    /\ Cardinality(DOMAIN gens) < NTwins
    /\ gens' = (FreeSlot :> [gens[s] EXCEPT !.g = clone(gens[s].g), !.twin = s,
                                            !.via = "clone", !.pre = gens[s].g,
                                            !.ret = <<>>])
               @@ [gens EXCEPT ![s].twin = FreeSlot]
    /\ UNCHANGED <<variant, usize_bits, big_endian, splits, fns, obs>>

\* lib.rs: let s = r.splitn(); r is moved into the split
Splitn(s) ==
    /\ variant = "lib"
    /\ s \in DOMAIN gens
    /\ DOMAIN splits # SplitSlots
    /\ Descents(gens[s].hist) < TreeDepth
    /\ splits' = (FreeSplit :> [g |-> splitn(gens[s].g), hist |-> gens[s].hist,
                                pre |-> gens[s].g, descs |-> gens[s].descs,
                                reseeded |-> gens[s].reseeded]) @@ splits
    /\ gens' = Without(Unlinked(gens, s), s)
    /\ UNCHANGED <<variant, usize_bits, big_endian, fns, obs>>

\* lib.rs: let r = s.branch(i)
Branch(p, i) ==
    /\ variant = "lib"
    /\ p \in DOMAIN splits
    /\ DOMAIN gens # Slots
    /\ \E r \in {branch(splits[p].g, U64(i))} :
           /\ splits' = [splits EXCEPT ![p].g = r.self]
           /\ gens' = (FreeSlot :> Child(r.ret, splits[p], splits[p].pre, i, "branch"))
                      @@ gens
    /\ UNCHANGED <<variant, usize_bits, big_endian, fns, obs>>

\* lib.rs: let (r0, r1) = r.split(); r is moved, r0 takes its slot
Split(s) ==
    /\ variant = "lib"
    /\ s \in DOMAIN gens
    /\ DOMAIN gens # Slots
    /\ Descents(gens[s].hist) < TreeDepth
    /\ \E r \in {split(gens[s].g)} :
           gens' = (FreeSlot :> Child(r[2], gens[s], gens[s].g, 1, "split"))
                   @@ [Unlinked(gens, s) EXCEPT
                          ![s] = Child(r[1], gens[s], gens[s].g, 0, "split")]
    /\ UNCHANGED <<variant, usize_bits, big_endian, splits, fns, obs>>

\* siprng.rs: let c = r.split(); r stays alive
SipSplit(s) ==
    /\ variant = "siprng"
    /\ s \in DOMAIN gens
    /\ DOMAIN gens # Slots
    /\ Descents(gens[s].hist) < TreeDepth
    /\ \E r \in {siprng_split(gens[s].g)} :
           gens' = (FreeSlot :> Child(r.ret, gens[s], gens[s].g, 1, "siprng_split"))
                   @@ [Unlinked(gens, s) EXCEPT
                          ![s] = Child(r.self, gens[s], gens[s].g, 0, "siprng_split")]
    /\ UNCHANGED <<variant, usize_bits, big_endian, splits, fns, obs>>

\* siprng.rs: let f = r.splitn(); r stays alive
SipSplitn(s) ==
    /\ variant = "siprng"
    /\ s \in DOMAIN gens
    /\ DOMAIN splits # SplitSlots
    /\ Descents(gens[s].hist) < TreeDepth
    /\ \E r \in {siprng_splitn(gens[s].g)} :
           /\ splits' = (FreeSplit :> [g |-> r.ret, hist |-> Append(gens[s].hist, <<"d", 1>>),
                                       pre |-> gens[s].g,
                                       descs |-> wrapping_add(gens[s].descs, U64(1)),
                                       reseeded |-> gens[s].reseeded]) @@ splits
           /\ gens' = [Unlinked(gens, s) EXCEPT
                          ![s] = Child(r.self, gens[s], gens[s].g, 0, "siprng_splitn")]
    /\ UNCHANGED <<variant, usize_bits, big_endian, fns, obs>>

\* siprng.rs: let r = f.call(i)
Call(p, i) ==
    /\ variant = "siprng"
    /\ p \in DOMAIN splits
    /\ DOMAIN gens # Slots
    /\ \E r \in {call(splits[p].g, U64(i))} :
           /\ splits' = [splits EXCEPT ![p].g = r.self]
           /\ gens' = (FreeSlot :> Child(r.ret, splits[p], splits[p].g, i, "call")) @@ gens
    /\ UNCHANGED <<variant, usize_bits, big_endian, fns, obs>>

\* lib.rs: let r = r.splitn().branch(i): one branch is followed, the split
\* is dropped
FollowBranch(s, i) ==
    /\ variant = "lib"
    /\ s \in DOMAIN gens
    /\ Descents(gens[s].hist) < MaxDepth
    /\ gens' = [Unlinked(gens, s) EXCEPT
                   ![s] = Child(branch(splitn(gens[s].g), U64(i)).ret, gens[s], gens[s].g,
                                i, "branch")]
    /\ UNCHANGED <<variant, usize_bits, big_endian, splits, fns, obs>>

\* siprng.rs: let c = r.split(), after which r (i = 0) or c (i = 1) is
\* followed and the other one dropped
FollowSplit(s, i) ==
    /\ variant = "siprng"
    /\ s \in DOMAIN gens
    /\ i \in {0, 1}
    /\ Descents(gens[s].hist) < MaxDepth
    /\ \E r \in {siprng_split(gens[s].g)} :
           gens' = [Unlinked(gens, s) EXCEPT
                       ![s] = Child(IF i = 0 THEN r.self ELSE r.ret, gens[s], gens[s].g,
                                    i, "siprng_split")]
    /\ UNCHANGED <<variant, usize_bits, big_endian, splits, fns, obs>>

\* lib.rs: let f: Box<Fn(u64) -> u64> = SplitRand::rand(&s), into slot f
FnRand(p, f) ==
    /\ variant = "lib"
    /\ p \in DOMAIN splits
    /\ f \notin DOMAIN fns
    /\ fns' = (f :> [g |-> rand(splits[p].g), pre |-> splits[p].g, of |-> p]) @@ fns
    /\ UNCHANGED <<variant, usize_bits, big_endian, gens, splits, obs>>

\* lib.rs: let y = f(a)
FnCall(f, a) ==
    /\ f \in DOMAIN fns
    /\ \E r \in {apply(fns[f].g, a)} :
           /\ fns' = [fns EXCEPT ![f].g = r.self]
           /\ obs' = obs \cup {[f |-> f, arg |-> a, value |-> r.ret]}
    /\ UNCHANGED <<variant, usize_bits, big_endian, gens, splits>>

\* siprng.rs: let (x0, x1): ([u64; n0], [u64; n1]) = r.split_gen()
SplitGen(s, n0, n1) ==
    /\ variant = "siprng"
    /\ s \in DOMAIN gens
    /\ Descents(gens[s].hist) < MaxIter
    /\ \E r \in {split_gen(gens[s].g, n0, n1)} :
           /\ gens' = [gens EXCEPT ![s] = [Child(r.self, gens[s], gens[s].g, 0, "split_gen")
                                              EXCEPT !.ret = <<n0, n1>>]]
           /\ obs' = obs \cup {[iter |-> Descents(gens[s].hist) + 1, pos |-> 0, n |-> n0,
                                sibling |-> n1, value |-> r.ret[1]],
                               [iter |-> Descents(gens[s].hist) + 1, pos |-> 1, n |-> n1,
                                sibling |-> n0, value |-> r.ret[2]]}
    /\ UNCHANGED <<variant, usize_bits, big_endian, splits, fns>>

\* ------------------------------------------------------------------------
\* Specifications
\* ------------------------------------------------------------------------

\* The split tree of two generators seeded alike, as in test_rng_rand_split:
\*   let mut ra: SipRng = SeedableRng::from_seed(seed);
\*   let mut rb: SipRng = SeedableRng::from_seed(seed);
\* No operation of this specification reads the byte order of the target.
Init ==
    /\ variant \in {"lib", "siprng"}
    /\ usize_bits \in {32, 64}
    /\ big_endian = FALSE
    /\ \E k \in 1..NSeeds : gens = (1 :> Fresh(k)) @@ (2 :> Fresh(k))
    /\ splits = <<>>
    /\ fns = <<>>
    /\ obs = {}

Next ==
    \/ \E s \in Slots : NextU64(s, TreeDraws)
    \/ \E s \in Slots : Splitn(s)
    \/ \E p \in SplitSlots, i \in Indices : Branch(p, i)
    \/ \E s \in Slots : Split(s)
    \/ \E s \in Slots : SipSplit(s)
    \/ \E s \in Slots : SipSplitn(s)
    \/ \E p \in SplitSlots, i \in Indices : Call(p, i)

Spec == Init /\ [][Next]_vars

\* One generator followed down the split tree, and its clones
InitClone ==
    /\ variant \in {"lib", "siprng"}
    /\ usize_bits \in {32, 64}
    /\ big_endian = FALSE
    /\ \E k \in 1..NSeeds : gens = (1 :> Fresh(k))
    /\ splits = <<>>
    /\ fns = <<>>
    /\ obs = {}

NextClone ==
    \/ \E s \in Slots : NextU64(s, MaxDraws)
    \/ \E s \in Slots : Clone(s)
    \/ \E s \in Slots, i \in Indices : FollowBranch(s, i)
    \/ \E s \in Slots, i \in Indices : FollowSplit(s, i)

SpecClone == InitClone /\ [][NextClone]_vars

\* One generator followed down the split tree, drawn from and reseeded, on
\* every target; on a 32-bit target also from the depth where len is
\* usize::MAX
InitRng ==
    /\ variant \in {"lib", "siprng"}
    /\ usize_bits \in {32, 64}
    /\ big_endian \in BOOLEAN
    /\ \/ \E k \in 1..NSeeds : gens = (1 :> Fresh(k))
       \/ usize_bits = 32 /\ gens = (1 :> Deep32)
    /\ splits = <<>>
    /\ fns = <<>>
    /\ obs = {}

NextRng ==
    \/ NextU64(1, MaxDraws)
    \/ NextU32(1)
    \/ \E n \in FillSizes : FillBytes(1, n)
    \/ \E k \in 1..NSeeds : Reseed(1, k)
    \/ \E i \in Indices : FollowBranch(1, i)
    \/ \E i \in Indices : FollowSplit(1, i)

SpecRng == InitRng /\ [][NextRng]_vars

\* Random functions of the splits of two generators seeded alike, each after
\* d draws, as in test_rng_rand_closure (lib.rs):
\*   let fa: F = SplitRand::rand(&ra.splitn());
\*   let fb: F = SplitRand::rand(&rb.splitn());
AfterDraws(k, d) == IF d = 0 THEN from_seed(SeedOf(k)) ELSE next_u64(from_seed(SeedOf(k))).self

InitFn ==
    /\ variant = "lib"
    /\ usize_bits \in {32, 64}
    /\ big_endian \in BOOLEAN
    /\ gens = <<>>
    /\ \E k \in 1..NSeeds, d \in 0..1 :
           splits = [p \in 1..2 |->
                        [g |-> splitn(AfterDraws(k, d)), hist |-> << <<"s", k>> >>,
                         pre |-> AfterDraws(k, d), descs |-> Zero64, reseeded |-> FALSE]]
    /\ fns = <<>>
    /\ obs = {}

NextFn ==
    \/ \E p \in 1..2 : FnRand(p, p)
    \/ \E f \in 1..2, a \in Args : FnCall(f, a)

SpecFn == InitFn /\ [][NextFn]_vars

\* Pairs derived again and again from two generators seeded alike, as in
\* test_rng_rand_independence (siprng.rs)
InitPair ==
    /\ variant = "siprng"
    /\ usize_bits \in {32, 64}
    /\ big_endian = FALSE
    /\ \E k \in 1..NSeeds : gens = (1 :> Fresh(k)) @@ (2 :> Fresh(k))
    /\ splits = <<>>
    /\ fns = <<>>
    /\ obs = {}

NextPair ==
    \E s \in 1..2, n0 \in {S1, S2}, n1 \in {S1, S2} : SplitGen(s, n0, n1)

SpecPair == InitPair /\ [][NextPair]_vars

\* One seeded generator of siprng.rs, split in place, and the generators its
\* SipPrf objects hand out
InitPrf ==
    /\ variant = "siprng"
    /\ usize_bits \in {32, 64}
    /\ big_endian = FALSE
    /\ \E k \in 1..NSeeds : gens = (1 :> Fresh(k))
    /\ splits = <<>>
    /\ fns = <<>>
    /\ obs = {}

NextPrf ==
    \/ \E s \in Slots : NextU64(s, TreeDraws)
    \/ \E s \in Slots : SipSplit(s)
    \/ \E s \in Slots : SipSplitn(s)
    \/ \E p \in SplitSlots, i \in Indices : Call(p, i)

SpecPrf == InitPrf /\ [][NextPrf]_vars

\* The same generator under next_u64, split and splitn alone: every generator
\* and every SipPrf is a position of its own in the split tree
NextWalk ==
    \/ \E s \in Slots : NextU64(s, TreeDraws)
    \/ \E s \in Slots : SipSplit(s)
    \/ \E s \in Slots : SipSplitn(s)

SpecWalk == InitPrf /\ [][NextWalk]_vars

\* ------------------------------------------------------------------------
\* Properties
\* ------------------------------------------------------------------------

\* The generator a fresh from_seed reaches by the first n entries of history h
RECURSIVE Replay(_, _)
Replay(h, n) ==
    IF n = 1 THEN from_seed(SeedOf(h[1][2]))
    ELSE Bind(Replay(h, n - 1),
              LAMBDA g : IF h[n][1] = "a" THEN advance(g) ELSE descend(g, U64(h[n][2])))

\* The generator g after j advances
RECURSIVE Advanced(_, _)
Advanced(g, j) == IF j = 0 THEN g ELSE advance(Advanced(g, j - 1))

\* Byte b of word w, counted from the least significant byte
Byte(w, b) == (w[(b \div 2) + 1] \div (256 ^ (b % 2))) % 256

\* The index of the last descend of history h
LastIndex(h) == h[Len(h)][2]

\* C1 (determinism, split congruence): generators that were seeded alike and
\* then put through the same operations (the same advances and the same
\* descends, in the same order) have the same six fields and have emitted the
\* same words, whichever of next_u64, split, splitn and branch/call made them,
\* in both variants.
SplitCongruence ==
    \A s \in DOMAIN gens, t \in DOMAIN gens :
        gens[s].hist = gens[t].hist => gens[s].g = gens[t].g /\ gens[s].out = gens[t].out

\* Two generators in different slots that went through the same draws and at
\* least one split, and have both drawn since
SplitCongruenceWitness ==
    \E s \in DOMAIN gens, t \in DOMAIN gens :
        /\ s # t
        /\ gens[s].hist = gens[t].hist
        /\ Descents(gens[s].hist) >= 1
        /\ gens[s].hist[2][1] = "a"
        /\ Len(gens[s].out) >= 1

\* C2 (reseed equivalence): reseed(G, s) leaves all six fields of G equal to
\* those of from_seed(s), whatever G was, and from then on G is in the state,
\* and returns the words, of a freshly seeded generator put through the same
\* operations.
ReseedEquivalence ==
    \A s \in DOMAIN gens :
        /\ gens[s].via = "reseed" => gens[s].g = from_seed(SeedOf(gens[s].hist[1][2]))
        /\ gens[s].reseeded =>
               /\ gens[s].g = Replay(gens[s].hist, Len(gens[s].hist))
               /\ gens[s].via = "next_u64" =>
                      gens[s].ret = next_u64(Replay(gens[s].hist, Len(gens[s].hist) - 1)).ret

\* A generator that had drawn and descended is reseeded
ReseedWitness ==
    \E s \in DOMAIN gens :
        /\ gens[s].via = "reseed"
        /\ gens[s].pre.len # U64(1)
        /\ gens[s].pre.ctr # Zero64

\* C3 (clone equivalence): a clone has the six fields of the generator it was
\* taken from; the k-th word of the one equals the k-th word of the other for
\* every k both have drawn; and neither is moved by draws on the other: after
\* equally many draws they are in the same state again.
CloneEquivalence ==
    \A s \in DOMAIN gens :
        gens[s].twin # 0 =>
            LET t == gens[s].twin
            IN  /\ gens[s].via = "clone" => gens[s].g = gens[s].pre
                /\ \A k \in 1..Len(gens[s].out) :
                       k <= Len(gens[t].out) => gens[s].out[k] = gens[t].out[k]
                /\ Ctr(gens[s]) = Ctr(gens[t]) => gens[s].g = gens[t].g

\* The clone has drawn twice since it was taken and the original has drawn
\* once, after a descend
CloneWitness ==
    \E s \in DOMAIN gens :
        /\ gens[s].twin # 0
        /\ s > gens[s].twin
        /\ gens[s].via = "next_u64"
        /\ Len(gens[s].out) = 2
        /\ Len(gens[gens[s].twin].out) = 1
        /\ Descents(gens[s].hist) >= 1

\* C4 (lib.rs, splitn and branch): the split holds the six fields of the
\* generator it was made from, before and after every branch; branch(i)
\* returns descend(clone(G), i) of that generator G, with ctr = 0 and
\* len = G.len + 1 (wrapping); so two generators returned for the same i are
\* equal, whatever was branched and drawn in between.
BranchIsDescendOfCaptured ==
    /\ variant = "lib" => \A p \in DOMAIN splits : splits[p].g = splits[p].pre
    /\ \A s \in DOMAIN gens :
           gens[s].via = "branch" =>
               /\ gens[s].g = descend(clone(gens[s].pre), U64(LastIndex(gens[s].hist)))
               /\ gens[s].g.ctr = Zero64
               /\ gens[s].g.len = as_usize(wrapping_add(gens[s].pre.len, U64(1)))
               /\ \A t \in DOMAIN gens :
                      /\ gens[t].via = "branch" /\ gens[t].hist = gens[s].hist
                             => gens[t].g = gens[s].g
                      /\ gens[t].via = "next_u64" /\ gens[t].hist = Append(gens[s].hist, <<"a", 0>>)
                             => gens[t].pre = gens[s].g

\* branch was called twice with the same index on a split of a generator that
\* had drawn, and the first generator returned has drawn before the second
\* call or after it
BranchWitness ==
    \E s \in DOMAIN gens, t \in DOMAIN gens :
        /\ gens[s].via = "branch"
        /\ gens[s].pre.ctr # Zero64
        /\ gens[t].via = "next_u64"
        /\ gens[t].hist = Append(gens[s].hist, <<"a", 0>>)

\* C5 (two-way split): split of a generator in state G, with any ctr and any
\* len, yields descend(G, 0) and descend(G, 1), each with ctr = 0 and
\* len = G.len + 1: in lib.rs as the pair (S.branch(0), S.branch(1)) of
\* S = splitn(G), in siprng.rs as the parent afterwards and the child returned.
TwoWaySplit ==
    \A s \in DOMAIN gens :
        /\ gens[s].via \in {"split", "siprng_split"} =>
               /\ gens[s].g = descend(gens[s].pre, U64(LastIndex(gens[s].hist)))
               /\ gens[s].g.ctr = Zero64
               /\ gens[s].g.len = as_usize(wrapping_add(gens[s].pre.len, U64(1)))
        /\ gens[s].via = "split" =>
               gens[s].g = branch(splitn(gens[s].pre), U64(LastIndex(gens[s].hist))).ret

\* Both generators of one split, of a generator that had drawn and had been
\* split before, are alive as split left them
TwoWaySplitWitness ==
    \E s \in DOMAIN gens, t \in DOMAIN gens :
        /\ gens[s].via \in {"split", "siprng_split"}
        /\ gens[t].via = gens[s].via
        /\ gens[s].pre = gens[t].pre
        /\ LastIndex(gens[s].hist) = 0
        /\ LastIndex(gens[t].hist) = 1
        /\ gens[s].pre.ctr # Zero64
        /\ gens[s].pre.len # U64(1)

\* C6 (branch independence in type): the words derived for one position of
\* the pair, on one repetition, are the same whatever number of words the
\* other position consumes, and the parents seeded alike are in the same
\* state after equally many derivations, whatever was derived.
PairIndependence ==
    /\ \A o1 \in obs, o2 \in obs :
           o1.iter = o2.iter /\ o1.pos = o2.pos /\ o1.n = o2.n => o1.value = o2.value
    /\ \A s \in DOMAIN gens, t \in DOMAIN gens :
           Descents(gens[s].hist) = Descents(gens[t].hist) => gens[s].g = gens[t].g

\* Position 1 has been derived beside a sibling of either length on the first
\* repetition, and position 0 on the last
PairIndependenceWitness ==
    \A k \in {0, 1} :
        \E o1 \in obs, o2 \in obs :
            /\ o1.iter = o2.iter
            /\ o1.iter = (IF k = 0 THEN MaxIter ELSE 1)
            /\ o1.pos = k /\ o2.pos = k
            /\ o1.n = o2.n
            /\ o1.sibling # o2.sibling

\* C7 (deterministic random function): a function f made from a split S
\* returns for a the first word of S.branch(hash(a)) and leaves its split as
\* it was; f(a) is the same on every call, and the functions made from the
\* splits of two generators seeded alike agree on every argument.
RandomFunction ==
    /\ \A f \in DOMAIN fns : fns[f].g = fns[f].pre
    /\ \A o \in obs :
           o.value = next_u64(branch(fns[o.f].pre, as_usize(hash(o.arg))).ret).ret
    /\ \A o1 \in obs, o2 \in obs : o1.arg = o2.arg => o1.value = o2.value

\* Both functions have been called with every argument, and no two arguments
\* gave the same value
RandomFunctionWitness ==
    /\ \A f \in {1, 2}, a \in Args : \E o \in obs : o.f = f /\ o.arg = a
    /\ \A o1 \in obs, o2 \in obs : o1.arg # o2.arg => o1.value # o2.value

\* C8 as stated (depth invariant): len >= 1 in every reachable generator.
LenAtLeastOne ==
    \A s \in DOMAIN gens : gens[s].g.len # Zero64

\* C8 as the code has it: len is one more than the number of descends since
\* the generator was seeded or reseeded, modulo 2^w for the word width w of
\* the target; so it is 0 exactly when that number is 2^w - 1 modulo 2^w, and
\* at least 1 otherwise.
LenIsDepthModWord ==
    \A s \in DOMAIN gens :
        gens[s].g.len = as_usize(wrapping_add(gens[s].descs, U64(1)))

\* A generator whose len a descend has wrapped to 0
LenWrappedWitness ==
    \E s \in DOMAIN gens : gens[s].g.len = Zero64 /\ gens[s].via # "deep"

\* C9 as stated (fill_bytes): a buffer of n bytes takes ceil(n / 8) draws and
\* receives at 8j + b the byte b, counted from the least significant one, of
\* the j-th word drawn; the high bytes of a last partial word are dropped.
FillBytesLittleEndian ==
    \A s \in DOMAIN gens :
        gens[s].via = "fill_bytes" =>
            LET n == Len(gens[s].ret)
            IN  /\ gens[s].g = Advanced(gens[s].pre, (n + 7) \div 8)
                /\ \A x \in 0..(n - 1) :
                       gens[s].ret[x + 1]
                           = Byte(finalize(Advanced(gens[s].pre, (x \div 8) + 1)), x % 8)

\* C9 on a little-endian target: there the statement holds
FillBytesOnLittleEndian == ~big_endian => FillBytesLittleEndian

\* C10 (state effect of next_u64 and next_u32): afterwards the generator is
\* what advance alone makes of it: the lanes of one advance, ctr + 1 modulo
\* 2^64, len unchanged; nothing of the finalization is stored.
DrawIsOneAdvance ==
    \A s \in DOMAIN gens :
        gens[s].via \in {"next_u64", "next_u32"} =>
            /\ gens[s].g = advance(gens[s].pre)
            /\ gens[s].g.ctr = wrapping_add(gens[s].pre.ctr, U64(1))
            /\ gens[s].g.len = gens[s].pre.len

\* next_u32 has drawn from a generator that had drawn and descended before
DrawWitness ==
    \E s \in DOMAIN gens :
        /\ gens[s].via = "next_u32"
        /\ gens[s].pre.ctr # Zero64
        /\ gens[s].pre.len # U64(1)

\* The history that history h extends by its last entry
Front(h) == SubSeq(h, 1, Len(h) - 1)

\* C11 as stated (siprng.rs, splitn and call): the SipPrf made by splitn of a
\* generator in state G captures G, so that call(i) returns
\* descend(clone(G), i), with ctr = 0 and len = G.len + 1.
CallIsDescendOfSplitnArgument ==
    \A s \in DOMAIN gens, p \in DOMAIN splits :
        gens[s].via = "call" /\ splits[p].hist = Front(gens[s].hist) =>
            /\ gens[s].g = descend(clone(splits[p].pre), U64(LastIndex(gens[s].hist)))
            /\ gens[s].g.ctr = Zero64
            /\ gens[s].g.len = as_usize(wrapping_add(splits[p].pre.len, U64(1)))

\* C11 as the code has it: splitn of a generator in state G leaves it at
\* descend(G, 0) and captures the child descend(clone(G), 1) of split; the
\* SipPrf holds that child before and after every call; call(i) returns
\* descend(clone(child), i), with ctr = 0 and len = G.len + 2 (wrapping); so two
\* generators returned for the same i are equal.
CallIsDescendOfSplitChild ==
    /\ \A p \in DOMAIN splits :
           variant = "siprng" => splits[p].g = descend(clone(splits[p].pre), U64(1))
    /\ \A s \in DOMAIN gens :
           /\ gens[s].via = "siprng_splitn" => gens[s].g = descend(gens[s].pre, U64(0))
           /\ gens[s].via = "call" =>
                  /\ \A p \in DOMAIN splits :
                         splits[p].hist = Front(gens[s].hist) =>
                             /\ gens[s].g = descend(clone(descend(clone(splits[p].pre), U64(1))),
                                                     U64(LastIndex(gens[s].hist)))
                             /\ gens[s].g.len
                                    = as_usize(wrapping_add(splits[p].pre.len, U64(2)))
                  /\ gens[s].g.ctr = Zero64
                  /\ \A t \in DOMAIN gens :
                         gens[t].via = "call" /\ gens[t].hist = gens[s].hist
                             => gens[t].g = gens[s].g

\* call was made twice with the same index on the SipPrf of a generator that
\* had drawn, and both generators returned are alive as call left them
CallWitness ==
    \E s \in DOMAIN gens, t \in DOMAIN gens, p \in DOMAIN splits :
        /\ s # t
        /\ gens[s].via = "call"
        /\ gens[t].via = "call"
        /\ gens[s].hist = gens[t].hist
        /\ splits[p].hist = Front(gens[s].hist)
        /\ splits[p].pre.ctr # Zero64

\* The values XORed in since seeding, by advance (the counter) and by descend
\* (the index), of history h
Values(h) == [j \in 1..(Len(h) - 1) |-> h[j + 1][2]]

\* The live generators and captured SipPrf states, each with its history, its
\* six fields and the six fields it was handed out with (or, for the seeded
\* generator, last drew from)
Live ==
    {[kind |-> "rng", slot |-> s, hist |-> gens[s].hist, g |-> gens[s].g,
      origin |-> IF gens[s].via = "next_u64" THEN gens[s].pre ELSE gens[s].g] :
        s \in DOMAIN gens}
    \cup {[kind |-> "prf", slot |-> p, hist |-> splits[p].hist, g |-> splits[p].g,
           origin |-> splits[p].g] : p \in DOMAIN splits}

\* C12 (no tree position is walked twice, siprng.rs): under any interleaving
\* of next_u64, split and splitn from one seeded generator, every live
\* generator and captured SipPrf state is what its history of XORed values
\* makes of the seed, and any two distinct ones differ in that history, in their
\* six fields and in the six fields they were handed out with: parent and
\* child of a split never share a history, and a later split or splitn does
\* not hand out an earlier state again.
NoPositionWalkedTwice ==
    /\ \A x \in Live : x.g = Replay(x.hist, Len(x.hist))
    /\ \A x \in Live, y \in Live :
           x.kind # y.kind \/ x.slot # y.slot =>
               /\ Values(x.hist) # Values(y.hist)
               /\ x.g # y.g
               /\ x.origin # y.origin

\* The seeded generator has drawn, has been split twice, and a child of it
\* has drawn and been captured by splitn: three generators and a SipPrf are alive
NoPositionWalkedTwiceWitness ==
    /\ Cardinality(DOMAIN gens) = 3
    /\ DOMAIN splits # {}
    /\ Descents(gens[1].hist) = 2
    /\ gens[1].hist[2][1] = "a"
    /\ \E p \in DOMAIN splits : splits[p].pre.ctr # Zero64

\* The four lanes of generator g
Lanes(g) == <<g.v0, g.v1, g.v2, g.v3>>

\* C13 (advance and descend transform the lanes alike): for every generator G,
\* advance(G) and descend(G, G.ctr) have the same v0..v3 and differ in ctr
\* (ctr + 1 against 0) and in len (len against len + 1, wrapping); so the lanes
\* after a draw are those of the fork on the counter, and the lanes after a
\* fork on the value of the counter are those of a draw.
AdvanceAndDescendShareLanes ==
    \A s \in DOMAIN gens :
        /\ LET a == advance(gens[s].g)
               d == descend(gens[s].g, gens[s].g.ctr)
           IN  /\ Lanes(a) = Lanes(d)
               /\ a.ctr = wrapping_add(gens[s].g.ctr, U64(1))
               /\ d.ctr = Zero64
               /\ a.len = gens[s].g.len
               /\ d.len = as_usize(wrapping_add(gens[s].g.len, U64(1)))
               /\ a.len # d.len
        /\ gens[s].via \in {"next_u64", "next_u32"} =>
               /\ Lanes(gens[s].g) = Lanes(descend(gens[s].pre, gens[s].pre.ctr))
               /\ gens[s].g # descend(gens[s].pre, gens[s].pre.ctr)
        /\ gens[s].via \in {"branch", "siprng_split"}
             /\ gens[s].pre.ctr = U64(LastIndex(gens[s].hist)) =>
               /\ Lanes(gens[s].g) = Lanes(advance(gens[s].pre))
               /\ gens[s].g # advance(gens[s].pre)

\* A generator that had drawn one word was forked on index 1, the value of
\* its counter: the fork has the lanes its second draw would have left
AdvanceAndDescendWitness ==
    \E s \in DOMAIN gens :
        /\ gens[s].via \in {"branch", "siprng_split"}
        /\ gens[s].pre.ctr = U64(1)
        /\ LastIndex(gens[s].hist) = 1
        /\ Lanes(gens[s].g) = Lanes(advance(gens[s].pre))

====
